---- MODULE Spec2Model ----
(***************************************************************************)
(* Model of the NSO MCP server (src/main.py, src/tools.py): the tool       *)
(* handlers, their transaction/session scoping against the datastore, and  *)
(* the response-shaping functions.                                         *)
(*                                                                         *)
(* Python strings are sequences of one-character strings, so that strip,   *)
(* lower, split and the `in` substring test are computed, not assumed.     *)
(***************************************************************************)
EXTENDS Integers, Sequences, FiniteSets, TLC

(***************************************************************************)
(* Bounds of the model.                                                    *)
(***************************************************************************)
NumInv == 2        \* handler invocations dispatched in one behaviour
MaxNedLen == 3     \* length of a raw driver id drawn for build_device_info
MaxNeds == 2       \* length of the ned-id list drawn for get_neds_list
MaxArgLen == 2     \* length of a model / version filter argument
MaxDevs == 2       \* length of the device list drawn for the filters

(***************************************************************************)
(* Python str operations.                                                  *)
(***************************************************************************)
UpperChars == <<"A", "B", "C", "D", "E", "F", "G", "H", "I", "J", "K", "L", "M",
                "N", "O", "P", "Q", "R", "S", "T", "U", "V", "W", "X", "Y", "Z">>
LowerChars == <<"a", "b", "c", "d", "e", "f", "g", "h", "i", "j", "k", "l", "m",
                "n", "o", "p", "q", "r", "s", "t", "u", "v", "w", "x", "y", "z">>

\* Python None, kept distinct from the empty string
None == <<"<None>">>

\* truth value of a Python object that is None or a str
Truthy(x) == x # None /\ x # <<>>

IsSpace(c) == c = " "

RECURSIVE lstrip(_)
lstrip(s) ==
    IF s = <<>> THEN <<>>
    ELSE IF IsSpace(Head(s)) THEN lstrip(Tail(s)) ELSE s

RECURSIVE rstrip(_)
rstrip(s) ==
    IF s = <<>> THEN <<>>
    ELSE IF IsSpace(s[Len(s)]) THEN rstrip(SubSeq(s, 1, Len(s) - 1)) ELSE s

\* str.strip()
strip(s) == rstrip(lstrip(s))

LowerChar(c) ==
    IF \E k \in 1..Len(UpperChars) : UpperChars[k] = c
    THEN LowerChars[CHOOSE k \in 1..Len(UpperChars) : UpperChars[k] = c]
    ELSE c

\* str.lower()
lower(s) == [k \in 1..Len(s) |-> LowerChar(s[k])]

\* `sub in s` on two str
IsSubstr(sub, s) ==
    \E k \in 0..(Len(s) - Len(sub)) : SubSeq(s, k + 1, k + Len(sub)) = sub

\* str.split(sep) for a one-character separator: the list of segments
RECURSIVE SplitAcc(_, _, _)
SplitAcc(s, sep, cur) ==
    IF s = <<>> THEN <<cur>>
    ELSE IF Head(s) = sep THEN <<cur>> \o SplitAcc(Tail(s), sep, <<>>)
    ELSE SplitAcc(Tail(s), sep, Append(cur, Head(s)))

split(s, sep) == SplitAcc(s, sep, <<>>)

\* str.split(sep, 1): at most one split
RECURSIVE SplitOnceAcc(_, _, _)
SplitOnceAcc(s, sep, cur) ==
    IF s = <<>> THEN <<cur>>
    ELSE IF Head(s) = sep THEN <<cur, Tail(s)>>
    ELSE SplitOnceAcc(Tail(s), sep, Append(cur, Head(s)))

split1(s, sep) == SplitOnceAcc(s, sep, <<>>)

\* all strings over the characters cs of length at most n
RECURSIVE StrsUpTo(_, _)
StrsUpTo(cs, n) ==
    IF n = 0 THEN {<<>>}
    ELSE LET shorter == StrsUpTo(cs, n - 1)
         IN  shorter \cup {Append(s, c) : s \in shorter, c \in cs}

\* all duplicate-free sequences over the set S of length at most n
RECURSIVE SeqsUpTo(_, _)
SeqsUpTo(S, n) ==
    IF n = 0 THEN {<<>>}
    ELSE LET shorter == SeqsUpTo(S, n - 1)
         IN  shorter \cup
             {Append(q, x) : <<q, x>> \in {qx \in shorter \X S :
                                             \A k \in 1..Len(qx[1]) : qx[1][k] # qx[2]}}

Range(q) == {q[k] : k \in 1..Len(q)}

(***************************************************************************)
(* src/tools.py                                                            *)
(***************************************************************************)
UNKNOWN == <<"u", "n", "k", "n", "o", "w", "n">>

\* the driver id chosen by the if / elif / else of build_device_info
RawNed(device) ==
    IF Truthy(device.netconf_ned_id) THEN device.netconf_ned_id
    ELSE IF Truthy(device.cli_ned_id) THEN device.cli_ned_id
    ELSE UNKNOWN

NedType(device) ==
    IF Truthy(device.netconf_ned_id) THEN "netconf"
    ELSE IF Truthy(device.cli_ned_id) THEN "cli"
    ELSE "unknown"

\* if len(ned.split(':')) == 2: ned = ned.split(':')[1]
StripNamespaceLoose(ned) ==
    IF Len(split(ned, ":")) >= 2 THEN split(ned, ":")[2] ELSE ned

StripNamespace(ned) ==
    IF Len(split(ned, ":")) = 2 THEN split(ned, ":")[2] ELSE ned

build_device_info(device) ==
    [name             |-> device.name,
     address          |-> device.address,
     platform_version |-> device.platform.version,
     platform_name    |-> device.platform.name,
     platform_model   |-> device.platform.model,
     ned_type         |-> NedType(device),
     ned              |-> StripNamespace(RawNed(device))]

(***************************************************************************)
(* src/main.py: the loops of the listing and filter handlers.              *)
(***************************************************************************)
EXCLUDED_NEDS == << <<"n","e","d",":","l","s","a","-","n","e","t","c","o","n","f">>,
                    <<"n","e","d",":","n","e","t","c","o","n","f">>,
                    <<"n","e","d",":","s","n","m","p">> >>

\* `ned.id in [...]` is list membership by string equality
IsExcludedNedLoose(id) ==
    \E k \in 1..Len(EXCLUDED_NEDS) : EXCLUDED_NEDS[k] = lower(strip(id))

IsExcludedNed(id) ==
    \E k \in 1..Len(EXCLUDED_NEDS) : EXCLUDED_NEDS[k] = id

\* the for loop of get_neds_list over root.ncs__devices.ned_ids.ned_id
RECURSIVE neds_list(_)
neds_list(ids) ==
    IF ids = <<>> THEN <<>>
    ELSE IF IsExcludedNed(Head(ids)) THEN neds_list(Tail(ids))
    ELSE IF Len(split(Head(ids), ":")) = 2
         THEN <<split(Head(ids), ":")[2]>> \o neds_list(Tail(ids))
         ELSE <<Head(ids)>> \o neds_list(Tail(ids))

\* the for loop of get_devices_name_list / get_devices_groups_list
names_list(items) == [k \in 1..Len(items) |-> items[k].name]

\* the if of get_devices_list_per_model
ModelMatches(model, device) ==
    IsSubstr(lower(strip(model)), lower(device.platform.name))

\* `clean_version in device.platform.version.lower()`
VersionMatchesExact(version, device) ==
    lower(strip(version)) = lower(device.platform.version)

VersionMatches(version, device) ==
    IsSubstr(lower(strip(version)), lower(device.platform.version))

RECURSIVE per_model(_, _)
per_model(devs, model) ==
    IF devs = <<>> THEN <<>>
    ELSE IF ModelMatches(model, Head(devs))
         THEN <<build_device_info(Head(devs))>> \o per_model(Tail(devs), model)
         ELSE per_model(Tail(devs), model)

RECURSIVE per_model_and_version(_, _, _)
per_model_and_version(devs, model, version) ==
    IF devs = <<>> THEN <<>>
    ELSE IF ModelMatches(model, Head(devs)) /\ VersionMatches(version, Head(devs))
         THEN <<build_device_info(Head(devs))>>
              \o per_model_and_version(Tail(devs), model, version)
         ELSE per_model_and_version(Tail(devs), model, version)

RECURSIVE per_model_dont_match_version(_, _, _)
per_model_dont_match_version(devs, model, version) ==
    IF devs = <<>> THEN <<>>
    ELSE IF ModelMatches(model, Head(devs)) /\ ~VersionMatches(version, Head(devs))
         THEN <<build_device_info(Head(devs))>>
              \o per_model_dont_match_version(Tail(devs), model, version)
         ELSE per_model_dont_match_version(Tail(devs), model, version)

DAY1_TEMPLATE == <<"-", "d", "a", "y", "1", "-">>

\* split_output = service.split(":", 1); keep split_output[1].strip() or service
ServiceName(service) ==
    IF Len(split1(service, ":")) = 2 THEN strip(split1(service, ":")[2]) ELSE service

RECURSIVE day1_services(_)
day1_services(svcs) ==
    IF svcs = <<>> THEN <<>>
    ELSE IF IsSubstr(DAY1_TEMPLATE, Head(svcs))
         THEN <<ServiceName(Head(svcs))>> \o day1_services(Tail(svcs))
         ELSE day1_services(Tail(svcs))

all_services(svcs) == [k \in 1..Len(svcs) |-> ServiceName(svcs[k])]

(***************************************************************************)
(* The datastore the handlers talk to (the ncs library): its content in    *)
(* the handler specification, and the replies of its actions.              *)
(***************************************************************************)
R1 == <<"r", "1">>
R2 == <<"r", "2">>
R3 == <<"r", "3">>
G1 == <<"g", "1">>
SVC_PATH == <<"/", "a">>

FixedDevices ==
    << [name |-> R1, address |-> <<"1", ".", "1">>,
        platform |-> [name |-> <<"i","o","s","-","x","r">>, version |-> <<"7",".","1">>,
                      model |-> <<"N","5">>],
        netconf_ned_id |-> <<"n", ":", "x", "r">>, cli_ned_id |-> None,
        service_list |-> <<SVC_PATH>>, reachable |-> TRUE],
       [name |-> R2, address |-> <<"1", ".", "2">>,
        platform |-> [name |-> <<"I","O","S","-","X","R">>, version |-> <<"7",".","2">>,
                      model |-> <<"N","5">>],
        netconf_ned_id |-> None, cli_ned_id |-> <<"x", "e">>,
        service_list |-> <<>>, reachable |-> TRUE],
       [name |-> R3, address |-> <<"1", ".", "3">>,
        platform |-> [name |-> <<"j","u","n","o","s">>, version |-> <<"2","1">>,
                      model |-> <<"M","X">>],
        netconf_ned_id |-> None, cli_ned_id |-> None,
        service_list |-> <<>>, reachable |-> FALSE] >>

FixedGroups == << [name |-> G1, device_name |-> <<R1, R2, R3>>] >>

FixedNedIds == << <<"n","e","d",":","s","n","m","p">>, <<"n", ":", "x", "r">>, <<"x", "e">> >>

FixedServices == << <<"s", ":", "-","d","a","y","1","-", "a">>, <<"t", ":", " ", "b">>, <<"c">> >>

\* list.exists(key) and `key in list`
Exists(items, key) == \E k \in 1..Len(items) : items[k].name = key

\* list[key] for a key that exists
Lookup(items, key) == items[CHOOSE k \in 1..Len(items) : items[k].name = key]

\* str() of an action result: a YANG boolean or an enumeration label
pystr(v) == IF v.t = "bool" THEN (IF v.b THEN "True" ELSE "False") ELSE v.label

Bool(b) == [t |-> "bool", b |-> b]
Enum(l) == [t |-> "enum", label |-> l]

\* permutations of a sequence: the orders in which the store may report a list
Perms(q) ==
    {p \in [1..Len(q) -> Range(q)] : \A a, b \in 1..Len(q) : a # b => p[a] # p[b]}

(***************************************************************************)
(* State.                                                                  *)
(***************************************************************************)
VARIABLES
    devices,       \* root.devices.device, in iteration order
    device_group,  \* root.devices.device_group
    ned_ids,       \* root.devices.ned_ids.ned_id
    services,      \* root.services
    in_sync,       \* per device: whether the store's copy matches the device
    handles,       \* per invocation: the connections, sessions and transactions it opened
    handler,       \* per invocation: the tool being run
    arg,           \* per invocation: its arguments
    pc,            \* per invocation: where it is
    held,          \* per invocation: the with-scopes it is inside, innermost last
    pending,       \* per invocation: the return value or exception in flight
    outcome,       \* per invocation: what the caller received
    log,           \* per invocation: the calls it made to the datastore
    fin,           \* inputs of a function applied on its own
    fout           \* its result

store == <<devices, device_group, ned_ids, services>>
invs == <<handler, arg, pc, held, pending, outcome, log>>
vars == <<devices, device_group, ned_ids, services, in_sync, handles,
          handler, arg, pc, held, pending, outcome, log, fin, fout>>

Invs == 1..NumInv

NoValue == [kind |-> "none"]
Return(v) == [kind |-> "return", value |-> v]
NotFound(msg) == [kind |-> "NotFound", msg |-> msg]
UpstreamFailure(what) == [kind |-> "UpstreamFailure", what |-> what]

ReadHandlers ==
    {"get_neds_list", "get_devices_name_list", "get_devices_groups_list",
     "get_device_info", "check_sync_devices_status", "get_devices_from_device_group",
     "get_devices_list_per_model", "get_devices_list_per_model_and_version",
     "get_devices_list_per_model_dont_match_version", "get_day1_services",
     "get_all_services", "get_device_configured_services", "check_service_sync_status"}

SyncHandlers == {"sync_device", "sync_device_group"}

\* the arguments the hosting layer hands to a handler
DeviceArgs == { <<R1>>, <<<<" ">> \o R1 \o <<" ">>>>, <<R3>>, <<<<" ", "z">>>> }
GroupArgs  == { <<G1>>, <<<<" ">> \o G1 \o <<" ">>>>, <<<<"g", "x", " ">>>> }
PathArgs   == { <<SVC_PATH>>, <<<<" ">> \o SVC_PATH \o <<" ">>>>, <<<<"/", "x">>>> }
FilterArgs == { << <<"x", "r">>, <<"7", ".", "1">> >>, << <<" ", "X", "R">>, <<"7">> >> }

ArgsOf(h) ==
    CASE h \in {"get_device_info", "check_sync_devices_status", "sync_device",
                "get_device_configured_services"} -> DeviceArgs
      [] h \in {"sync_device_group", "get_devices_from_device_group"} -> GroupArgs
      [] h = "check_service_sync_status" -> PathArgs
      [] h \in {"get_devices_list_per_model_and_version",
                "get_devices_list_per_model_dont_match_version"} -> FilterArgs
      [] h = "get_devices_list_per_model" -> {<<a[1]>> : a \in FilterArgs}
      [] OTHER -> {<<>>}

InitInvs ==
    /\ handles = [i \in Invs |-> <<>>]
    /\ handler = [i \in Invs |-> "none"]
    /\ arg = [i \in Invs |-> <<>>]
    /\ pc = [i \in Invs |-> "idle"]
    /\ held = [i \in Invs |-> <<>>]
    /\ pending = [i \in Invs |-> NoValue]
    /\ outcome = [i \in Invs |-> NoValue]
    /\ log = [i \in Invs |-> <<>>]

InitStore ==
    /\ devices = FixedDevices
    /\ device_group = FixedGroups
    /\ ned_ids = FixedNedIds
    /\ services = FixedServices
    /\ in_sync = [k \in 1..Len(FixedDevices) |-> FALSE]

Init ==
    /\ InitStore
    /\ InitInvs
    /\ fin = NoValue
    /\ fout = NoValue

(***************************************************************************)
(* Scoped acquisition: the with statements of the handlers.                *)
(***************************************************************************)
Frame == UNCHANGED <<store, handler, arg, outcome, fin, fout>>

\* a handle is named by the invocation that opened it and its rank among those
IsOpen(x) == handles[x[1]][x[2]].open
KindOf(x) == handles[x[1]][x[2]].kind
OwnerOf(x) == x[1]

OpenHandles(kind) ==
    {x \in Invs \X (1..3) :
        x[2] <= Len(handles[x[1]]) /\ IsOpen(x) /\ KindOf(x) = kind}

\* a with statement that takes whatever handle of the kind is already open
AcquireShared(i, kind) ==
    IF OpenHandles(kind) # {}
    THEN /\ held' = [held EXCEPT ![i] = Append(@, CHOOSE x \in OpenHandles(kind) : TRUE)]
         /\ UNCHANGED handles
    ELSE /\ handles' = [handles EXCEPT ![i] = Append(@, [kind |-> kind, open |-> TRUE])]
         /\ held' = [held EXCEPT ![i] = Append(@, <<i, Len(handles[i]) + 1>>)]

\* entering a with statement: a new handle, owned by the invocation
Acquire(i, kind) ==
    /\ handles' = [handles EXCEPT ![i] = Append(@, [kind |-> kind, open |-> TRUE])]
    /\ held' = [held EXCEPT ![i] = Append(@, <<i, Len(handles[i]) + 1>>)]

\* one call to the datastore, as the invocation's log records it
Call(i, op, key, ok, reply) ==
    log' = [log EXCEPT ![i] =
               Append(@, [op |-> op, key |-> key, ok |-> ok, reply |-> reply,
                          scope |-> held[i],
                          live |-> \A k \in 1..Len(held[i]) : IsOpen(held[i][k])])]

\* leaving the body with a return value or an exception in flight
Leave(i, res) ==
    /\ pc' = [pc EXCEPT ![i] = "exit"]
    /\ pending' = [pending EXCEPT ![i] = res]

Goto(i, label) ==
    /\ pc' = [pc EXCEPT ![i] = label]
    /\ UNCHANGED pending

\* an except clause that turns the exception into an empty result
Swallow(exc) == Return(<<>>)

\* no handler has an except clause: an exception of the datastore leaves as it is
Propagate(exc) == exc

UsesWriteTransGroupOnly(h) == h = "sync_device_group"

\* sync_device and sync_device_group open Maapi, Session, start_write_trans
UsesWriteTrans(h) == h \in SyncHandlers

Start(i) ==
    /\ pc[i] = "idle"
    /\ \E h \in ReadHandlers \cup SyncHandlers : \E a \in ArgsOf(h) :
          /\ handler' = [handler EXCEPT ![i] = h]
          /\ arg' = [arg EXCEPT ![i] = a]
    /\ pc' = [pc EXCEPT ![i] = "enter"]
    /\ UNCHANGED <<store, in_sync, handles, held, pending, outcome, log, fin, fout>>

\* the event loop starts a tool call; a handler has no await, so it runs to its
\* end before the loop starts the next one
Dispatch(i) ==
    /\ \A j \in Invs \ {i} : pc[j] = "idle"
    /\ Start(i)

\* calls dispatched while others are in flight (a hosting layer with threads)
DispatchConcurrent(i) ==
    /\ \A j \in Invs : j < i => pc[j] # "idle"
    /\ Start(i)

\* the invocation is over and nothing of it is kept
Forget(i) ==
    /\ pc[i] = "done"
    /\ pc' = [pc EXCEPT ![i] = "idle"]
    /\ handler' = [handler EXCEPT ![i] = "none"]
    /\ arg' = [arg EXCEPT ![i] = <<>>]
    /\ pending' = [pending EXCEPT ![i] = NoValue]
    /\ outcome' = [outcome EXCEPT ![i] = NoValue]
    /\ log' = [log EXCEPT ![i] = <<>>]
    /\ handles' = [handles EXCEPT ![i] = <<>>]
    /\ UNCHANGED <<store, in_sync, held, fin, fout>>

\* with <kind> as ...: entered, or the datastore raises during setup
Enter(i, at, kind, next) ==
    /\ pc[i] = at
    /\ \E ok \in BOOLEAN :
          /\ Call(i, kind, <<>>, ok, <<>>)
          /\ IF ok
             THEN Acquire(i, kind) /\ Goto(i, next)
             ELSE Leave(i, Propagate(UpstreamFailure(kind))) /\ UNCHANGED <<handles, held>>
    /\ UNCHANGED in_sync
    /\ Frame

single_read_trans(i) ==
    /\ handler[i] # "none"
    /\ ~UsesWriteTrans(handler[i])
    /\ Enter(i, "enter", "single_read_trans", "body")

Maapi(i) ==
    /\ UsesWriteTrans(handler[i])
    /\ Enter(i, "enter", "Maapi", "session")

Session(i) == Enter(i, "session", "Session", "write_trans")

start_write_trans(i) == Enter(i, "write_trans", "start_write_trans", "body")

Close(x) == [handles EXCEPT ![x[1]][x[2]].open = FALSE]

\* scopes left by an exception are dropped without being closed
ExitScopeNoFinally(i) ==
    /\ pc[i] = "exit"
    /\ held[i] # <<>>
    /\ IF pending[i].kind = "return"
       THEN /\ handles' = Close(held[i][Len(held[i])])
            /\ held' = [held EXCEPT ![i] = SubSeq(@, 1, Len(@) - 1)]
       ELSE /\ held' = [held EXCEPT ![i] = <<>>]
            /\ UNCHANGED handles
    /\ UNCHANGED <<in_sync, pc, pending, log>>
    /\ Frame

\* __exit__ of the innermost with statement, on return and on exception alike
ExitScope(i) ==
    /\ pc[i] = "exit"
    /\ held[i] # <<>>
    /\ handles' = Close(held[i][Len(held[i])])
    /\ held' = [held EXCEPT ![i] = SubSeq(@, 1, Len(@) - 1)]
    /\ UNCHANGED <<in_sync, pc, pending, log>>
    /\ Frame

\* control is back at the caller, with the value or the exception
Complete(i) ==
    /\ pc[i] = "exit"
    /\ held[i] = <<>>
    /\ pc' = [pc EXCEPT ![i] = "done"]
    /\ outcome' = [outcome EXCEPT ![i] = pending[i]]
    /\ UNCHANGED <<store, in_sync, handles, handler, arg, held, pending, log, fin, fout>>

(***************************************************************************)
(* The handler bodies.                                                     *)
(***************************************************************************)
DeviceNotFound(name) == NotFound(<<"Device ">> \o name \o <<" not found in NSO CDB">>)

GroupNotFound(name) ==
    NotFound(<<"The device group ">> \o name \o <<" could not be found in NSO CDB">>)

DevIndex(name) == CHOOSE k \in 1..Len(devices) : devices[k].name = name

\* a handler whose body is one iteration over a list of the store
ListBody(i, h, value) ==
    /\ pc[i] = "body"
    /\ handler[i] = h
    /\ \E ok \in BOOLEAN :
          /\ Call(i, "iterate", <<>>, ok, <<>>)
          /\ Leave(i, IF ok THEN Return(value) ELSE Propagate(UpstreamFailure("iterate")))
    /\ UNCHANGED <<in_sync, handles, held>>
    /\ Frame

\* an existence test whose miss does not raise
CheckExistsNoRaise(i, h, items, key, miss) ==
    /\ pc[i] = "body"
    /\ handler[i] = h
    /\ \E ok \in BOOLEAN :
          /\ Call(i, "exists", key, ok, Bool(Exists(items, key)))
          /\ IF ~ok THEN Leave(i, Propagate(UpstreamFailure("exists")))
             ELSE Goto(i, "found")
    /\ UNCHANGED <<in_sync, handles, held>>
    /\ Frame

\* if not <list>.exists(key): raise ValueError(...)
CheckExists(i, h, items, key, miss) ==
    /\ pc[i] = "body"
    /\ handler[i] = h
    /\ \E ok \in BOOLEAN :
          /\ Call(i, "exists", key, ok, Bool(Exists(items, key)))
          /\ IF ~ok THEN Leave(i, Propagate(UpstreamFailure("exists")))
             ELSE IF Exists(items, key) THEN Goto(i, "found")
             ELSE Leave(i, miss)
    /\ UNCHANGED <<in_sync, handles, held>>
    /\ Frame

\* <list>[key] and what the handler makes of the entry; a missing key raises
GetItem(i, h, at, items, key, value) ==
    /\ pc[i] = at
    /\ handler[i] = h
    /\ \E ok \in BOOLEAN :
          LET hit == ok /\ Exists(items, key)
          IN  /\ Call(i, "getitem", key, hit, <<>>)
              /\ Leave(i, IF hit THEN Return(value)
                          ELSE Propagate(UpstreamFailure("getitem")))
    /\ UNCHANGED <<in_sync, handles, held>>
    /\ Frame

get_neds_list(i) == ListBody(i, "get_neds_list", neds_list(ned_ids))

get_devices_name_list(i) == ListBody(i, "get_devices_name_list", names_list(devices))

get_devices_groups_list(i) ==
    ListBody(i, "get_devices_groups_list", names_list(device_group))

get_device_info_exists(i) ==
    CheckExists(i, "get_device_info", devices, strip(arg[i][1]),
                DeviceNotFound(strip(arg[i][1])))

get_device_info_build(i) ==
    GetItem(i, "get_device_info", "found", devices, strip(arg[i][1]),
            build_device_info(Lookup(devices, strip(arg[i][1]))))

\* the reply of check_sync on a device
CheckSyncReply(k) ==
    Enum(IF ~devices[k].reachable THEN "error"
         ELSE IF in_sync[k] THEN "in-sync" ELSE "out-of-sync")

check_sync_devices_status(i) ==
    /\ pc[i] = "body"
    /\ handler[i] = "check_sync_devices_status"
    /\ \E ok \in BOOLEAN :
          LET key == strip(arg[i][1])
              hit == ok /\ Exists(devices, key)
          IN  IF hit
              THEN /\ Call(i, "check_sync", key, TRUE, CheckSyncReply(DevIndex(key)))
                   /\ Leave(i, Return(pystr(CheckSyncReply(DevIndex(key)))))
              ELSE /\ Call(i, "check_sync", key, FALSE, <<>>)
                   /\ Leave(i, Propagate(UpstreamFailure("check_sync")))
    /\ UNCHANGED <<in_sync, handles, held>>
    /\ Frame

\* what sync_from leaves in the store for the devices named
Synced(names) ==
    [k \in 1..Len(devices) |->
        IF devices[k].name \in names /\ devices[k].reachable THEN TRUE ELSE in_sync[k]]

sync_device(i) ==
    /\ pc[i] = "body"
    /\ handler[i] = "sync_device"
    /\ \E ok \in BOOLEAN :
          LET key == strip(arg[i][1])
              hit == ok /\ Exists(devices, key)
          IN  IF hit
              THEN LET reply == Bool(devices[DevIndex(key)].reachable)
                   IN  /\ Call(i, "sync_from", key, TRUE, reply)
                       /\ in_sync' = Synced({key})
                       /\ Leave(i, Return([name |-> key, result |-> pystr(reply)]))
              ELSE /\ Call(i, "sync_from", key, FALSE, <<>>)
                   /\ UNCHANGED in_sync
                   /\ Leave(i, Propagate(UpstreamFailure("sync_from")))
    /\ UNCHANGED <<handles, held>>
    /\ Frame

sync_device_group_exists(i) ==
    CheckExists(i, "sync_device_group", device_group, strip(arg[i][1]),
                GroupNotFound(strip(arg[i][1])))

\* a loop that stops at the first member whose sync failed
RECURSIVE sync_results_until_failure(_)
sync_results_until_failure(items) ==
    IF items = <<>> \/ ~Head(items).result.b THEN <<>>
    ELSE <<[name |-> Head(items).device, result |-> pystr(Head(items).result)]>>
         \o sync_results_until_failure(Tail(items))

\* for item_result in result.sync_result: result_list.append(SyncResult(...))
RECURSIVE sync_results(_)
sync_results(items) ==
    IF items = <<>> THEN <<>>
    ELSE <<[name |-> Head(items).device, result |-> pystr(Head(items).result)]>>
         \o sync_results(Tail(items))

sync_device_group_sync(i) ==
    /\ pc[i] = "found"
    /\ handler[i] = "sync_device_group"
    /\ \E ok \in BOOLEAN :
          LET key == strip(arg[i][1])
              hit == ok /\ Exists(device_group, key)
          IN  IF hit
              THEN \E order \in Perms(Lookup(device_group, key).device_name) :
                      LET reply == [k \in 1..Len(order) |->
                                      [device |-> order[k],
                                       result |-> Bool(devices[DevIndex(order[k])].reachable)]]
                      IN  /\ Call(i, "sync_from", key, TRUE, reply)
                          /\ in_sync' = Synced(Range(order))
                          /\ Leave(i, Return(sync_results(reply)))
              ELSE /\ Call(i, "sync_from", key, FALSE, <<>>)
                   /\ UNCHANGED in_sync
                   /\ Leave(i, Propagate(UpstreamFailure("sync_from")))
    /\ UNCHANGED <<handles, held>>
    /\ Frame

get_devices_from_device_group_exists(i) ==
    CheckExists(i, "get_devices_from_device_group", device_group, strip(arg[i][1]),
                GroupNotFound(strip(arg[i][1])))

get_devices_from_device_group_list(i) ==
    GetItem(i, "get_devices_from_device_group", "found", device_group, strip(arg[i][1]),
            Lookup(device_group, strip(arg[i][1])).device_name)

get_devices_list_per_model(i) ==
    ListBody(i, "get_devices_list_per_model", per_model(devices, arg[i][1]))

get_devices_list_per_model_and_version(i) ==
    ListBody(i, "get_devices_list_per_model_and_version",
             per_model_and_version(devices, arg[i][1], arg[i][2]))

get_devices_list_per_model_dont_match_version(i) ==
    ListBody(i, "get_devices_list_per_model_dont_match_version",
             per_model_dont_match_version(devices, arg[i][1], arg[i][2]))

get_day1_services(i) == ListBody(i, "get_day1_services", day1_services(services))

get_all_services(i) == ListBody(i, "get_all_services", all_services(services))

get_device_configured_services_exists(i) ==
    CheckExists(i, "get_device_configured_services", devices, strip(arg[i][1]),
                DeviceNotFound(strip(arg[i][1])))

get_device_configured_services_list(i) ==
    GetItem(i, "get_device_configured_services", "found", devices, strip(arg[i][1]),
            Lookup(devices, strip(arg[i][1])).service_list)

\* ncs.maagic.get_node(root, ncs_keypath): the path as given resolves or raises
check_service_sync_status_get_node(i) ==
    /\ pc[i] = "body"
    /\ handler[i] = "check_service_sync_status"
    /\ \E ok \in BOOLEAN :
          LET hit == ok /\ arg[i][1] = SVC_PATH
          IN  /\ Call(i, "get_node", arg[i][1], hit, <<>>)
              /\ IF hit THEN Goto(i, "found")
                 ELSE Leave(i, Propagate(UpstreamFailure("get_node")))
    /\ UNCHANGED <<in_sync, handles, held>>
    /\ Frame

\* service.check_sync(); str(result.in_sync)
check_service_sync_status_check(i) ==
    /\ pc[i] = "found"
    /\ handler[i] = "check_service_sync_status"
    /\ \E ok \in BOOLEAN :
          LET reply == Bool(in_sync[DevIndex(R1)])
          IN  IF ok
              THEN /\ Call(i, "check_sync", arg[i][1], TRUE, reply)
                   /\ Leave(i, Return(pystr(reply)))
              ELSE /\ Call(i, "check_sync", arg[i][1], FALSE, <<>>)
                   /\ Leave(i, Propagate(UpstreamFailure("check_sync")))
    /\ UNCHANGED <<in_sync, handles, held>>
    /\ Frame

Run(i) ==
        \/ single_read_trans(i)
        \/ Maapi(i)
        \/ Session(i)
        \/ start_write_trans(i)
        \/ get_neds_list(i)
        \/ get_devices_name_list(i)
        \/ get_devices_groups_list(i)
        \/ get_device_info_exists(i)
        \/ get_device_info_build(i)
        \/ check_sync_devices_status(i)
        \/ sync_device(i)
        \/ sync_device_group_exists(i)
        \/ sync_device_group_sync(i)
        \/ get_devices_from_device_group_exists(i)
        \/ get_devices_from_device_group_list(i)
        \/ get_devices_list_per_model(i)
        \/ get_devices_list_per_model_and_version(i)
        \/ get_devices_list_per_model_dont_match_version(i)
        \/ get_day1_services(i)
        \/ get_all_services(i)
        \/ get_device_configured_services_exists(i)
        \/ get_device_configured_services_list(i)
        \/ check_service_sync_status_get_node(i)
        \/ check_service_sync_status_check(i)
        \/ ExitScope(i)
        \/ Complete(i)

Next == \E i \in Invs : Dispatch(i) \/ Run(i) \/ Forget(i)

Spec == Init /\ [][Next]_vars

NextConc == \E i \in Invs : DispatchConcurrent(i) \/ Run(i)

SpecConc == Init /\ [][NextConc]_vars

(***************************************************************************)
(* The response-shaping functions applied on their own, to inputs drawn    *)
(* from bounded sets.                                                      *)
(***************************************************************************)
Digits == <<"1", "2", "3", "4", "5">>

InitIdle ==
    /\ InitInvs
    /\ in_sync = [k \in 1..Len(devices) |-> FALSE]
    /\ fout = NoValue

\* build_device_info: the two driver ids range over None and every short string
NedValues == {None} \cup StrsUpTo({"a", ":"}, MaxNedLen)

DeviceRecords ==
    {[name |-> n, address |-> a, platform |-> p,
      netconf_ned_id |-> nc, cli_ned_id |-> cl, service_list |-> <<>>, reachable |-> TRUE] :
        n \in {R1, R2}, a \in {<<"1", ".", "1">>, <<>>},
        p \in {[name |-> <<"x", "r">>, version |-> <<"7">>, model |-> <<"N">>],
               [name |-> <<>>, version |-> <<"7", ".", "1">>, model |-> <<"M", "X">>]},
        nc \in NedValues, cl \in NedValues}

InitInfo ==
    /\ devices = FixedDevices
    /\ device_group = FixedGroups
    /\ ned_ids = FixedNedIds
    /\ services = FixedServices
    /\ InitIdle
    /\ fin \in {[op |-> "build_device_info", device |-> d] : d \in DeviceRecords}

ApplyBuildDeviceInfo ==
    /\ fin.op = "build_device_info"
    /\ fout = NoValue
    /\ fout' = Return(build_device_info(fin.device))
    /\ UNCHANGED <<store, in_sync, handles, invs, fin>>

SpecInfo == InitInfo /\ [][ApplyBuildDeviceInfo]_vars

\* get_neds_list: the store's ned-id list holds the built-in ids, spellings of
\* them in another case, and ids of zero, one and two colons
NedIdUniverse ==
    Range(EXCLUDED_NEDS) \cup
    { <<"N","E","D",":","S","N","M","P">>, <<"n","e","d",":","N","e","t","c","o","n","f">>,
      <<"n", ":", "x", "r">>, <<"x", "e">>, <<"a", ":", "b", ":", "c">>,
      <<"s","n","m","p">> }

InitNeds ==
    /\ devices = FixedDevices
    /\ device_group = FixedGroups
    /\ ned_ids \in SeqsUpTo(NedIdUniverse, MaxNeds)
    /\ services = FixedServices
    /\ InitIdle
    /\ fin = [op |-> "get_neds_list"]

ApplyNedsList ==
    /\ fin.op = "get_neds_list"
    /\ fout = NoValue
    /\ fout' = Return(neds_list(ned_ids))
    /\ UNCHANGED <<store, in_sync, handles, invs, fin>>

SpecNeds == InitNeds /\ [][ApplyNedsList]_vars

\* the three model / version filters over one device list
PlatformNames == { <<"y">>, <<"y", "X">> }
PlatformVersions == { <<"b">>, <<"7", "B">> }
ModelArgs == StrsUpTo({"x", "X", " "}, MaxArgLen)
VersionArgs == StrsUpTo({"7", "B", " "}, MaxArgLen)

FilterDevice(k, pn, pv) ==
    [name |-> <<"r", Digits[k]>>, address |-> <<"1", ".", Digits[k]>>,
     platform |-> [name |-> pn, version |-> pv, model |-> <<"N">>],
     netconf_ned_id |-> <<"n", ":", "x", "r">>, cli_ned_id |-> None,
     service_list |-> <<>>, reachable |-> TRUE]

RECURSIVE DeviceLists(_)
DeviceLists(n) ==
    IF n = 0 THEN {<<>>}
    ELSE LET shorter == DeviceLists(n - 1)
         IN  shorter \cup
             {Append(q, FilterDevice(Len(q) + 1, pn, pv)) :
                 q \in {q \in shorter : Len(q) = n - 1},
                 pn \in PlatformNames, pv \in PlatformVersions}

InitFilter ==
    /\ devices \in DeviceLists(MaxDevs)
    /\ device_group = <<>>
    /\ ned_ids = FixedNedIds
    /\ services = FixedServices
    /\ InitIdle
    /\ fin \in {[op |-> "filter", model |-> m, version |-> v] :
                   m \in ModelArgs, v \in VersionArgs}

ApplyFilters ==
    /\ fin.op = "filter"
    /\ fout = NoValue
    /\ fout' = Return([per_model |-> per_model(devices, fin.model),
                       and_version |-> per_model_and_version(devices, fin.model, fin.version),
                       dont_match |-> per_model_dont_match_version(devices, fin.model,
                                                                    fin.version)])
    /\ UNCHANGED <<store, in_sync, handles, invs, fin>>

SpecFilter == InitFilter /\ [][ApplyFilters]_vars

(***************************************************************************)
(* Properties.                                                             *)
(***************************************************************************)
Done(i) == pc[i] = "done"

AllClosed(i) == \A k \in 1..Len(handles[i]) : ~handles[i][k].open

KindsOf(scope) == [k \in 1..Len(scope) |-> KindOf(scope[k])]

CountOps(i, ops) == Cardinality({k \in 1..Len(log[i]) : log[i][k].op \in ops})

\* C1: an invocation that has returned or raised holds no with-scope, and every
\* transaction, session and connection it opened is closed.
C1_ReleasedOnEveryExit ==
    \A i \in Invs : Done(i) => held[i] = <<>> /\ AllClosed(i)

\* a group sync that raised NotFound after opening connection, session and
\* write transaction
C1_Witness ==
    \E i \in Invs :
        /\ Done(i)
        /\ handler[i] = "sync_device_group"
        /\ outcome[i].kind = "NotFound"
        /\ Len(handles[i]) = 3

\* C2: sync_from is called only by sync_device and sync_device_group, inside
\* the open write transaction, session and connection of the same invocation;
\* every other handler opens one read transaction and nothing else, and
\* never calls sync_from.
C2_SyncFromOnlyInWriteTrans ==
    \A i \in Invs :
        /\ \A k \in 1..Len(log[i]) :
              log[i][k].op = "sync_from" =>
                  /\ handler[i] \in SyncHandlers
                  /\ log[i][k].live
                  /\ KindsOf(log[i][k].scope) = <<"Maapi", "Session", "start_write_trans">>
                  /\ \A x \in Range(log[i][k].scope) : OwnerOf(x) = i
        /\ handler[i] \in ReadHandlers =>
              /\ CountOps(i, {"sync_from", "Maapi", "Session", "start_write_trans"}) = 0
              /\ \A k \in 1..Len(handles[i]) : handles[i][k].kind = "single_read_trans"
              /\ Len(handles[i]) <= 1

\* sync_device has called sync_from and the store has synced the device
C2_Witness ==
    /\ \E i \in Invs :
          /\ handler[i] = "sync_device"
          /\ \E k \in 1..Len(log[i]) : log[i][k].op = "sync_from" /\ log[i][k].ok
          /\ in_sync[1]

ExistenceHandlers ==
    {"get_device_info", "get_device_configured_services", "sync_device_group",
     "get_devices_from_device_group"}

CheckedList(h) ==
    IF h \in {"get_device_info", "get_device_configured_services"}
    THEN devices ELSE device_group

\* C3: in a handler with an existence check, the check is made on the trimmed
\* key; when it finds the key absent it is the last call the invocation makes
\* to the store (no lookup, no projection, no sync_from), and the invocation
\* fails with NotFound whose message contains the trimmed key.
C3_NotFoundOnMiss ==
    \A i \in Invs : handler[i] \in ExistenceHandlers =>
        \A k \in 1..Len(log[i]) :
            (log[i][k].op = "exists" /\ log[i][k].ok) =>
                /\ log[i][k].key = strip(arg[i][1])
                /\ log[i][k].reply.b = Exists(CheckedList(handler[i]), strip(arg[i][1]))
                /\ ~log[i][k].reply.b =>
                      /\ k = Len(log[i])
                      /\ pc[i] \in {"exit", "done"}
                      /\ pending[i].kind = "NotFound"
                      /\ IsSubstr(strip(arg[i][1]), pending[i].msg)
                      /\ Done(i) => outcome[i] = pending[i]

\* sync_device_group on an absent group, given with surrounding blanks, failed
C3_Witness ==
    \E i \in Invs :
        /\ Done(i)
        /\ handler[i] = "sync_device_group"
        /\ arg[i][1] # strip(arg[i][1])
        /\ outcome[i].kind = "NotFound"
        /\ CountOps(i, {"sync_from"}) = 0

\* what an invocation saw of the datastore
Observed(i) ==
    [k \in 1..Len(log[i]) |->
        [op |-> log[i][k].op, key |-> log[i][k].key, ok |-> log[i][k].ok,
         reply |-> log[i][k].reply]]

\* C4: under any interleaving, every handle an invocation uses or holds was
\* opened by it and is open, none is open once it is over, and two
\* invocations of the same handler with the same arguments that saw the same
\* of the datastore end with the same outcome.
C4_HandlesPrivate ==
    \A i \in Invs :
        /\ \A k \in 1..Len(log[i]) :
              /\ log[i][k].live
              /\ \A x \in Range(log[i][k].scope) : OwnerOf(x) = i
        /\ \A x \in Range(held[i]) : OwnerOf(x) = i /\ IsOpen(x)
        /\ Done(i) => AllClosed(i)
        /\ \A j \in Invs :
              (/\ Done(i) /\ Done(j)
               /\ handler[i] = handler[j] /\ arg[i] = arg[j]
               /\ Observed(i) = Observed(j)) => outcome[i] = outcome[j]

\* two invocations are inside a read transaction at the same time and one of
\* them has used it
C4_Witness ==
    \E i, j \in Invs :
        /\ i # j
        /\ pc[i] = "found" /\ pc[j] = "body"
        /\ held[i] # <<>> /\ held[j] # <<>>
        /\ KindOf(held[i][1]) = KindOf(held[j][1])

\* C5: sync_device_group returns one SyncResult per entry of the outcome list
\* the store's sync_from reported, in that order, each with the entry's device
\* name and the string of its result, whether the member's sync succeeded or not.
C5_GroupResultsPassedThrough ==
    \A i \in Invs :
        (handler[i] = "sync_device_group" /\ pending[i].kind = "return") =>
            LET e == log[i][Len(log[i])]
                v == pending[i].value
            IN  /\ e.op = "sync_from"
                /\ Len(v) = Len(e.reply)
                /\ \A k \in 1..Len(e.reply) :
                      /\ v[k].name = e.reply[k].device
                      /\ e.reply[k].result.b => v[k].result = "True"
                      /\ ~e.reply[k].result.b => v[k].result = "False"

\* a group of three members, one of which failed to sync, returned to the caller
C5_Witness ==
    \E i \in Invs :
        /\ Done(i)
        /\ handler[i] = "sync_device_group"
        /\ outcome[i].kind = "return"
        /\ Len(outcome[i].value) = 3
        /\ outcome[i].value[1].result = "False"
        /\ outcome[i].value[2].result = "True"

KeyedOps == {"exists", "getitem", "check_sync", "sync_from", "get_node"}

\* C6: every key a handler hands to the datastore is its argument trimmed of
\* surrounding whitespace.
C6_KeysTrimmed ==
    \A i \in Invs : \A k \in 1..Len(log[i]) :
        log[i][k].op \in KeyedOps => log[i][k].key = strip(arg[i][1])

\* C10: an invocation opens its transaction at most once and calls a store
\* action at most once; a call the datastore fails is the last call the
\* invocation makes, and that failure is what the caller receives.
C10_AtMostOnceNoRetry ==
    \A i \in Invs :
        /\ CountOps(i, {"single_read_trans", "start_write_trans"}) <= 1
        /\ CountOps(i, {"sync_from", "check_sync"}) <= 1
        /\ \A k \in 1..Len(log[i]) :
              ~log[i][k].ok =>
                  /\ k = Len(log[i])
                  /\ pc[i] \in {"exit", "done"}
                  /\ pending[i] = UpstreamFailure(log[i][k].op)
                  /\ Done(i) => outcome[i] = UpstreamFailure(log[i][k].op)

\* sync_device whose sync_from raised has handed the failure to its caller
C10_Witness ==
    \E i \in Invs :
        /\ Done(i)
        /\ handler[i] = "sync_device"
        /\ Len(log[i]) = 4
        /\ ~log[i][4].ok
        /\ outcome[i] = UpstreamFailure("sync_from")

(***************************************************************************)
(* Properties of the response-shaping functions.                           *)
(***************************************************************************)
Colons(s) == {k \in 1..Len(s) : s[k] = ":"}

\* the part after the colon of an id with exactly one colon, else the id
Unprefixed(id) ==
    IF Cardinality(Colons(id)) = 1
    THEN SubSeq(id, (CHOOSE k \in Colons(id) : TRUE) + 1, Len(id))
    ELSE id

ExcludedIds ==
    { <<"n","e","d",":","l","s","a","-","n","e","t","c","o","n","f">>,
      <<"n","e","d",":","n","e","t","c","o","n","f">>,
      <<"n","e","d",":","s","n","m","p">> }

\* the ids of the list that are not excluded, each once, in order, unprefixed
KeptNeds(ids, Excluded(_)) ==
    LET Keep(id) == ~Excluded(id)
        kept == SelectSeq(ids, Keep)
    IN  [k \in 1..Len(kept) |-> Unprefixed(kept[k])]

SpelledLikeExcluded(id) == lower(strip(id)) \in ExcludedIds

IsExcludedId(id) == id \in ExcludedIds

\* C7 as stated: get_neds_list leaves out every id that is one of ned:lsa-netconf,
\* ned:netconf, ned:snmp in any letter case or with surrounding blanks, and
\* returns every other id once, in order, unprefixed.
C7_ExcludedInAnyCase ==
    fout.kind = "return" => fout.value = KeptNeds(ned_ids, SpelledLikeExcluded)

\* C7 amended: get_neds_list leaves out exactly the ids equal to ned:lsa-netconf,
\* ned:netconf or ned:snmp, and returns every other id (one spelled in another
\* case included) once, in enumeration order, with its prefix stripped when it
\* has exactly two segments.
C7_ExcludedExactly ==
    fout.kind = "return" => fout.value = KeptNeds(ned_ids, IsExcludedId)

\* the list held a built-in id and the same id in upper case; one entry came back
C7_Witness ==
    /\ fout.kind = "return"
    /\ ned_ids = << <<"n","e","d",":","s","n","m","p">>, <<"N","E","D",":","S","N","M","P">> >>
    /\ fout.value = << <<"S","N","M","P">> >>

\* C8: build_device_info gives ned_type netconf and the netconf id when that id
\* is non-empty, else cli and the cli id when that is non-empty, else unknown and
\* unknown; ned is the part after the colon exactly when the id has one colon;
\* name, address and the platform fields are those of the record.
C8_BuildDeviceInfo ==
    fout.kind = "return" =>
        LET d == fin.device
            r == fout.value
            hasNetconf == d.netconf_ned_id # None /\ Len(d.netconf_ned_id) > 0
            hasCli == d.cli_ned_id # None /\ Len(d.cli_ned_id) > 0
        IN  /\ hasNetconf => r.ned_type = "netconf" /\ r.ned = Unprefixed(d.netconf_ned_id)
            /\ (~hasNetconf /\ hasCli) =>
                   r.ned_type = "cli" /\ r.ned = Unprefixed(d.cli_ned_id)
            /\ (~hasNetconf /\ ~hasCli) => r.ned_type = "unknown" /\ r.ned = UNKNOWN
            /\ r.ned_type = "unknown" => ~hasNetconf /\ ~hasCli
            /\ r.name = d.name
            /\ r.address = d.address
            /\ r.platform_version = d.platform.version
            /\ r.platform_name = d.platform.name
            /\ r.platform_model = d.platform.model

\* a record with no netconf id and a cli id of three segments, kept as it is
C8_Witness ==
    /\ fout.kind = "return"
    /\ fin.device.netconf_ned_id = None
    /\ fin.device.cli_ned_id = <<":", "a", ":">>
    /\ fout.value.ned_type = "cli"
    /\ fout.value.ned = <<":", "a", ":">>

\* needle occurs in hay, letter case aside
ContainsNoCase(hay, needle) ==
    \E a, b \in 0..Len(hay) :
        /\ a <= b
        /\ b - a = Len(needle)
        /\ \A k \in 1..Len(needle) : LowerChar(hay[a + k]) = LowerChar(needle[k])

\* the DeviceInfo of the devices that pass a test, in scan order
InfosWhere(Test(_)) ==
    LET picked == SelectSeq(devices, Test)
    IN  [k \in 1..Len(picked) |-> build_device_info(picked[k])]

\* C9: the dont-match filter returns, in scan order, the DeviceInfo of exactly
\* the devices whose platform name contains the trimmed model and whose
\* platform version does not contain the trimmed version, case aside; it and
\* the model-and-version filter share no device and together hold exactly the
\* devices of the model filter.
C9_DontMatchVersion ==
    fout.kind = "return" =>
        LET M(d) == ContainsNoCase(d.platform.name, strip(fin.model))
            V(d) == ContainsNoCase(d.platform.version, strip(fin.version))
            Dont(d) == M(d) /\ ~V(d)
            Both(d) == M(d) /\ V(d)
            r == fout.value
        IN  /\ r.dont_match = InfosWhere(Dont)
            /\ r.and_version = InfosWhere(Both)
            /\ Range(r.dont_match) \cap Range(r.and_version) = {}
            /\ Range(r.dont_match) \cup Range(r.and_version) = Range(r.per_model)
            /\ Len(r.dont_match) + Len(r.and_version) = Len(r.per_model)

\* arguments with blanks and another case; one device in each of the two results
C9_Witness ==
    /\ fout.kind = "return"
    /\ fin.model = <<" ", "x">>
    /\ fin.version = <<"7", " ">>
    /\ Len(devices) = 2
    /\ Len(fout.value.dont_match) = 1
    /\ Len(fout.value.and_version) = 1

====
